---- MODULE Spec2Model ----
(***************************************************************************)
(* Model of the two pipeline blocks of magic-zoomcamp:                     *)
(*   data_loaders/load_api_green_taxi_data.py   load_data_from_api,        *)
(*                                              test_output                *)
(*   transformers/transformer_grean_taxi_data.py transform, test_output    *)
(*                                                                         *)
(* Text (a column name) is a sequence of one-character strings.  A cell is *)
(* a sequence of integers: <<>> is a missing value (NA, NaN, NaT), <<n>> a *)
(* number, <<day, tick>> a timestamp and <<day>> a calendar date.  A data  *)
(* frame is a record [columns, dtypes, index, rows]: the column labels,    *)
(* the dtype of each column, the row labels, and one tuple of cells per    *)
(* row, aligned with columns.                                              *)
(***************************************************************************)
EXTENDS Integers, Sequences, FiniteSets, TLC

VARIABLES
    block,      \* the block the host invoked: "none", "loader", "transformer"
    lpc,        \* load_data_from_api: "idle", "loop", "returned", "raised", "tested"
    url_i,      \* position of the for loop in url_list (1-based)
    df_list,    \* the list of per-resource frames built by the loop
    requests,   \* history: the url_list positions read_csv was called on, in order
    loaded,     \* the value load_data_from_api returned, None before and on a raise
    tpc,        \* transform: "idle", "called", "returned", "raised", "tested"
    data0,      \* history: the frame the caller passed, as it was at the call
    data,       \* the caller's frame object (transform mutates it in place)
    output,     \* the value transform returned, None before and on a raise
    raised,     \* the exception that ended the block, "" when none
    verdict     \* result of the paired test_output: "", "pass" or the failed assertion

vars == <<block, lpc, url_i, df_list, requests, loaded,
          tpc, data0, data, output, raised, verdict>>

\* Python's None, as a frame-shaped record so that it compares with frames.
None == [columns |-> <<>>, dtypes |-> <<>>, index |-> <<-1>>, rows |-> <<>>]

-----------------------------------------------------------------------------
(* Bounds of the model.                                                    *)

\* rows of the frame handed to transform
MaxRows == 2
\* rows decoded from one remote resource
MaxFetchRows == 2
\* length of a generated column name
MaxNameLen == 4

-----------------------------------------------------------------------------
(* Text.                                                                   *)

\* the lower-case form of each upper-case letter
LowerOf ==
    [c \in {"A","B","C","D","E","F","G","H","I","J","K","L","M",
            "N","O","P","Q","R","S","T","U","V","W","X","Y","Z"} |->
       CASE c = "A" -> "a" [] c = "B" -> "b" [] c = "C" -> "c" [] c = "D" -> "d"
         [] c = "E" -> "e" [] c = "F" -> "f" [] c = "G" -> "g" [] c = "H" -> "h"
         [] c = "I" -> "i" [] c = "J" -> "j" [] c = "K" -> "k" [] c = "L" -> "l"
         [] c = "M" -> "m" [] c = "N" -> "n" [] c = "O" -> "o" [] c = "P" -> "p"
         [] c = "Q" -> "q" [] c = "R" -> "r" [] c = "S" -> "s" [] c = "T" -> "t"
         [] c = "U" -> "u" [] c = "V" -> "v" [] c = "W" -> "w" [] c = "X" -> "x"
         [] c = "Y" -> "y" [] c = "Z" -> "z"]

\* str.lower on one character
CharLower(c) == IF c \in DOMAIN LowerOf THEN LowerOf[c] ELSE c

\* Index.str.lower on one label: every character from position i on
RECURSIVE LowerFrom(_, _)
LowerFrom(s, i) ==
    IF i > Len(s) THEN <<>> ELSE <<CharLower(s[i])>> \o LowerFrom(s, i + 1)

StrLower(s) == LowerFrom(s, 1)

\* the text old occurs in s at position i
MatchAt(s, i, old) ==
    /\ i + Len(old) - 1 <= Len(s)
    /\ \A k \in 1..Len(old) : s[i + k - 1] = old[k]

\* Index.str.replace(old, new): every non-overlapping occurrence of old,
\* scanning from the left, becomes new (old is non-empty). ReplaceFrom is the
\* scan from position i on.
RECURSIVE ReplaceFrom(_, _, _, _)
ReplaceFrom(s, i, old, new) ==
    IF i > Len(s) THEN <<>>
    ELSE IF MatchAt(s, i, old)
         THEN new \o ReplaceFrom(s, i + Len(old), old, new)
         ELSE <<s[i]>> \o ReplaceFrom(s, i + 1, old, new)

StrReplace(s, old, new) == ReplaceFrom(s, 1, old, new)

\* the literals of transform
ID == <<"I","D">>
_id == <<"_","i","d">>
passenger_count == <<"p","a","s","s","e","n","g","e","r","_","c","o","u","n","t">>
trip_distance == <<"t","r","i","p","_","d","i","s","t","a","n","c","e">>
lpep_pickup_datetime ==
    <<"l","p","e","p","_","p","i","c","k","u","p","_","d","a","t","e","t","i","m","e">>
lpep_pickup_date ==
    <<"l","p","e","p","_","p","i","c","k","u","p","_","d","a","t","e">>
vendor_id == <<"v","e","n","d","o","r","_","i","d">>

\* column names of the remote CSV files (keys of taxi_dtypes)
VendorID == <<"V","e","n","d","o","r","I","D">>
PULocationID == <<"P","U","L","o","c","a","t","i","o","n","I","D">>

-----------------------------------------------------------------------------
(* Data frames.                                                            *)

\* a missing cell: NA of Int64, NaN of float64, NaT of datetime64
Missing == <<>>

\* RangeIndex(n): the labels 0 .. n-1
RangeIndex(n) == [i \in 1..n |-> i - 1]

NRows(df) == Len(df.rows)
NCols(df) == Len(df.columns)

\* positions of the columns labelled name
Loc(df, name) == {i \in 1..NCols(df) : df.columns[i] = name}

\* a lookup that falls back to the first column where pandas raises KeyError
GetLocOrFirst(df, name) ==
    IF Loc(df, name) = {} THEN 1 ELSE CHOOSE i \in Loc(df, name) : TRUE

\* df[name]: the position of the one column labelled name (0 when absent,
\* which is where pandas raises KeyError)
GetLoc(df, name) ==
    IF Loc(df, name) = {} THEN 0 ELSE CHOOSE i \in Loc(df, name) : TRUE

\* df[name] = values: overwrite the column labelled name when there is one,
\* otherwise append a new last column
SetItem(df, name, dtype, values) ==
    IF Loc(df, name) # {}
    THEN [df EXCEPT
            !.dtypes = [c \in 1..NCols(df) |->
                          IF c \in Loc(df, name) THEN dtype ELSE df.dtypes[c]],
            !.rows = [r \in 1..NRows(df) |->
                        [c \in 1..NCols(df) |->
                           IF c \in Loc(df, name) THEN values[r] ELSE df.rows[r][c]]]]
    ELSE [df EXCEPT
            !.columns = Append(df.columns, name),
            !.dtypes = Append(df.dtypes, dtype),
            !.rows = [r \in 1..NRows(df) |-> Append(df.rows[r], values[r])]]

\* the sub-sequence of s at the positions where keep is TRUE
RECURSIVE Select(_, _)
Select(s, keep) ==
    IF s = <<>> THEN <<>>
    ELSE IF Head(keep) THEN <<Head(s)>> \o Select(Tail(s), Tail(keep))
         ELSE Select(Tail(s), Tail(keep))

\* df[mask] with a boolean indexer: a new frame with the rows where the mask
\* is True, each under its original label; a missing mask entry counts as False
Keep(mask) == [r \in 1..Len(mask) |-> mask[r] = "True"]

GetItemBool(df, mask) ==
    [df EXCEPT !.index = Select(df.index, Keep(mask)),
               !.rows = Select(df.rows, Keep(mask))]

-----------------------------------------------------------------------------
(* transform (transformers/transformer_grean_taxi_data.py).                *)

\* the two string calls in the other order: .str.lower().str.replace('ID','_id')
LowerThenReplace(n) == StrReplace(StrLower(n), ID, _id)

\* data.columns.str.replace('ID','_id').str.lower()
NormalizeName(n) == StrLower(StrReplace(n, ID, _id))
RECURSIVE NormalizeColumns(_)
NormalizeColumns(cols) ==
    IF cols = <<>> THEN <<>>
    ELSE <<NormalizeName(Head(cols))>> \o NormalizeColumns(Tail(cols))

\* Series.dt.normalize on one cell: the timestamp at midnight, not a date
DtNormalize(cell) == IF cell = Missing THEN Missing ELSE <<cell[1], 0>>

\* Series.dt.date on one cell: the calendar date of a timestamp, NaT for NaT
DtDate(cell) == IF cell = Missing THEN Missing ELSE <<cell[1]>>

\* series > 0 on one cell. A nullable Int64 column gives a masked boolean
\* (NA where the cell is NA); a numpy column gives a plain boolean (NaN > 0
\* is False).
GtZero(dtype, cell) ==
    IF cell = Missing THEN (IF dtype = "Int64" THEN "NA" ELSE "False")
    ELSE IF cell[1] > 0 THEN "True" ELSE "False"

\* the right operand of &, a float64 column, cast to boolean: under a masked
\* left operand by np.asarray(dtype=bool) (NaN is truthy), under a numpy left
\* operand by fill_bool (NaN becomes False); any other non-zero number is True
AsBool(leftDtype, cell) ==
    IF cell = Missing THEN (IF leftDtype = "Int64" THEN "True" ELSE "False")
    ELSE IF cell[1] # 0 THEN "True" ELSE "False"

\* a | b on one element (Kleene logic for masked booleans)
Or(a, b) ==
    IF a = "True" \/ b = "True" THEN "True"
    ELSE IF a = "NA" \/ b = "NA" THEN "NA"
    ELSE "False"

\* a & b on one element (Kleene logic for masked booleans)
And(a, b) ==
    IF a = "False" \/ b = "False" THEN "False"
    ELSE IF a = "NA" \/ b = "NA" THEN "NA"
    ELSE "True"

\* boolean > 0 on one element: True > 0, not False > 0, NA stays NA
BoolGtZero(m) ==
    IF m = "True" THEN "True" ELSE IF m = "False" THEN "False" ELSE "NA"

\* (data['passenger_count'] > 0) & (data['trip_distance']) > 0, which Python
\* parses as ((data['passenger_count'] > 0) & data['trip_distance']) > 0
RowMask(df, pc, td) ==
    [r \in 1..NRows(df) |->
       BoolGtZero(And(GtZero(df.dtypes[pc], df.rows[r][pc]),
                      AsBool(df.dtypes[pc], df.rows[r][td])))]

\* line 23: data.columns = ...
Renamed(df) == [df EXCEPT !.columns = NormalizeColumns(df.columns)]

\* line 24: data['lpep_pickup_date'] = data['lpep_pickup_datetime'].dt.date
DatesOf(df, dt) == [r \in 1..NRows(df) |-> DtDate(df.rows[r][dt])]

WithPickupDate(df) ==
    SetItem(df, lpep_pickup_date, "object",
            DatesOf(df, GetLoc(df, lpep_pickup_datetime)))

\* a filter that returns None, as data.drop(..., inplace=True) does
FilteredNone(df) == None

\* line 25: return data[...]
Filtered(df) ==
    GetItemBool(df, RowMask(df, GetLoc(df, passenger_count),
                                GetLoc(df, trip_distance)))

\* line 25 dropping the rows from the caller's frame itself
Line25InPlace(d2) ==
    IF GetLoc(d2, passenger_count) = 0
    THEN [raised |-> "KeyError: passenger_count", data |-> d2, output |-> None]
    ELSE IF GetLoc(d2, trip_distance) = 0
    THEN [raised |-> "KeyError: trip_distance", data |-> d2, output |-> None]
    ELSE [raised |-> "", data |-> Filtered(d2), output |-> Filtered(d2)]

\* line 25, on the frame d2 that line 24 left: the exception raised ("" when
\* none), the caller's frame as the call leaves it, and the returned value
Line25(d2) ==
    IF GetLoc(d2, passenger_count) = 0
    THEN [raised |-> "KeyError: passenger_count", data |-> d2, output |-> None]
    ELSE IF GetLoc(d2, trip_distance) = 0
    THEN [raised |-> "KeyError: trip_distance", data |-> d2, output |-> None]
    ELSE [raised |-> "", data |-> d2, output |-> Filtered(d2)]

\* line 24 and what follows, on the frame d1 that line 23 left
Line24(d1) ==
    IF GetLoc(d1, lpep_pickup_datetime) = 0
    THEN [raised |-> "KeyError: lpep_pickup_datetime", data |-> d1, output |-> None]
    ELSE IF d1.dtypes[GetLoc(d1, lpep_pickup_datetime)] # "datetime64"
    THEN [raised |-> "AttributeError: .dt", data |-> d1, output |-> None]
    ELSE Line25(WithPickupDate(d1))

\* transform(data)
TransformResult(df) == Line24(Renamed(df))

\* series.isin([0]).sum(): the number of cells equal to 0
CountZero(df, c) == Cardinality({r \in 1..NRows(df) : df.rows[r][c] = <<0>>})

\* test_output of the transformer: "pass" or the message of the first
\* assertion that fails
TransformTestOutput(out) ==
    IF out = None THEN "The output is undefined"
    ELSE IF GetLoc(out, vendor_id) = 0 THEN " vendor_id column is not exist"
    ELSE IF CountZero(out, GetLoc(out, passenger_count)) # 0
    THEN "there are rides with zero passnger"
    ELSE IF CountZero(out, GetLoc(out, trip_distance)) # 0
    THEN "there are rides with zero trip distance"
    ELSE "pass"

-----------------------------------------------------------------------------
(* load_data_from_api (data_loaders/load_api_green_taxi_data.py).          *)

url_list ==
    <<"https://github.com/DataTalksClub/nyc-tlc-data/releases/download/green/green_tripdata_2020-10.csv.gz",
      "https://github.com/DataTalksClub/nyc-tlc-data/releases/download/green/green_tripdata_2020-11.csv.gz",
      "https://github.com/DataTalksClub/nyc-tlc-data/releases/download/green/green_tripdata_2020-12.csv.gz">>

\* pd.read_csv(url_list[u], ...) on a resource that decodes to n lines: a
\* frame labelled 0 .. n-1. The decoded fields of a line are abstracted to
\* the single cell <<u, k>>: line k of resource u.
ReadCsv(u, n) ==
    [columns |-> << <<"l","i","n","e">> >>,
     dtypes  |-> <<"object">>,
     index   |-> RangeIndex(n),
     rows    |-> [k \in 1..n |-> << <<u, k>> >>]]

\* the rows, and the row labels, of the frames of a list, in list order
RECURSIVE ConcatRows(_)
ConcatRows(dfs) ==
    IF dfs = <<>> THEN <<>> ELSE Head(dfs).rows \o ConcatRows(Tail(dfs))

RECURSIVE ConcatIndex(_)
ConcatIndex(dfs) ==
    IF dfs = <<>> THEN <<>> ELSE Head(dfs).index \o ConcatIndex(Tail(dfs))

\* pd.concat(dfs, axis=0, ignore_index=...) on frames with the same columns
Concat(dfs, ignore_index) ==
    [columns |-> Head(dfs).columns,
     dtypes  |-> Head(dfs).dtypes,
     index   |-> IF ignore_index THEN RangeIndex(Len(ConcatRows(dfs)))
                 ELSE ConcatIndex(dfs),
     rows    |-> ConcatRows(dfs)]

\* the return statement without ignore_index=True
ConcatKeepIndex(dfs) == Concat(dfs, FALSE)

\* the return statement of load_data_from_api
LoaderReturnValue(dfs) == Concat(dfs, TRUE)

\* test_output of the loader
LoaderTestOutput(out) ==
    IF out = None THEN "The output is undefined" ELSE "pass"

-----------------------------------------------------------------------------
(* The frames the host hands to transform.                                 *)

Stamp == <<20201001, 2359>>

\* the cells a column can hold, by its normalized label
CellValues(label) ==
    IF label = passenger_count THEN {Missing, <<0>>, <<1>>}
    ELSE IF label = trip_distance THEN {Missing, <<-1>>, <<0>>, <<1>>}
    ELSE IF label = lpep_pickup_datetime THEN {Missing, Stamp}
    ELSE IF label = lpep_pickup_date THEN {<<19991231>>}
    ELSE {<<2>>}

Col(name, dtype) == [name |-> name, dtype |-> dtype]

PASSENGER_COUNT == <<"P","A","S","S","E","N","G","E","R","_","C","O","U","N","T">>

\* column lists with the three columns transform reads
FullSchemas ==
    { <<Col(VendorID, "Int64"), Col(lpep_pickup_datetime, "datetime64"),
        Col(passenger_count, "Int64"), Col(trip_distance, "float64")>>,
      <<Col(passenger_count, "float64"), Col(trip_distance, "float64"),
        Col(lpep_pickup_datetime, "datetime64"), Col(VendorID, "Int64")>>,
      <<Col(trip_distance, "float64"), Col(PASSENGER_COUNT, "Int64"),
        Col(PULocationID, "Int64"), Col(lpep_pickup_datetime, "datetime64")>>,
      <<Col(lpep_pickup_date, "object"), Col(VendorID, "Int64"),
        Col(passenger_count, "Int64"), Col(trip_distance, "float64"),
        Col(lpep_pickup_datetime, "datetime64")>> }

\* column lists lacking one of them, or with unparsed timestamps
PartialSchemas ==
    { <<Col(lpep_pickup_datetime, "object"), Col(passenger_count, "Int64")>>,
      <<Col(VendorID, "Int64"), Col(passenger_count, "Int64"),
        Col(trip_distance, "float64")>>,
      <<Col(VendorID, "Int64"), Col(passenger_count, "Int64"),
        Col(lpep_pickup_datetime, "datetime64")>>,
      <<Col(VendorID, "Int64"), Col(trip_distance, "float64"),
        Col(lpep_pickup_datetime, "datetime64")>>,
      <<Col(VendorID, "Int64")>> }

\* every text of 1 .. n characters over an alphabet
RECURSIVE Texts(_, _)
Texts(alphabet, n) ==
    IF n = 0 THEN {}
    ELSE {<<c>> : c \in alphabet}
         \cup {<<c>> \o t : c \in alphabet, t \in Texts(alphabet, n - 1)}

GeneratedNames == Texts({"I", "D", "i", "d", "_", "X"}, MaxNameLen)

\* every tuple of cells a row of the column list can hold
RECURSIVE RowsOf(_)
RowsOf(schema) ==
    IF schema = <<>> THEN {<<>>}
    ELSE {<<v>> \o t : v \in CellValues(NormalizeName(Head(schema).name)),
                       t \in RowsOf(Tail(schema))}

Frame(schema, rows) ==
    [columns |-> [c \in 1..Len(schema) |-> schema[c].name],
     dtypes  |-> [c \in 1..Len(schema) |-> schema[c].dtype],
     index   |-> RangeIndex(Len(rows)),
     rows    |-> rows]

\* the column lists of the frames handed to transform
InputSchemas == FullSchemas \cup PartialSchemas

\* an empty frame with the three columns transform reads after one more
\* column of a generated label
HeaderOnly(g) ==
    Frame(<<Col(g, "object"), Col(lpep_pickup_datetime, "datetime64"),
            Col(passenger_count, "Int64"), Col(trip_distance, "float64")>>, <<>>)

-----------------------------------------------------------------------------
(* The state machine: the host invokes one block, then its paired test.    *)

Init ==
    /\ block = "none"
    /\ lpc = "idle"
    /\ url_i = 1
    /\ df_list = <<>>
    /\ requests = <<>>
    /\ loaded = None
    /\ tpc = "idle"
    /\ data0 = None
    /\ data = None
    /\ output = None
    /\ raised = ""
    /\ verdict = ""

LoaderVars == <<lpc, url_i, df_list, requests, loaded>>
TransformVars == <<tpc, data0, data, output>>

\* the host calls load_data_from_api(): lines 15-38
HostRunLoader ==
    /\ block = "none"
    /\ block' = "loader"
    /\ lpc' = "loop"
    /\ url_i' = 1
    /\ df_list' = <<>>
    /\ UNCHANGED <<requests, loaded, TransformVars, raised, verdict>>

\* one iteration of the for loop, read_csv succeeding: line 40
Fetch ==
    /\ lpc = "loop"
    /\ url_i <= Len(url_list)
    /\ \E n \in 0..MaxFetchRows :
          df_list' = Append(df_list, ReadCsv(url_i, n))
    /\ requests' = Append(requests, url_i)
    /\ url_i' = url_i + 1
    /\ UNCHANGED <<block, lpc, loaded, TransformVars, raised, verdict>>

\* one iteration of the for loop, read_csv raising inside a try/except that
\* skips the resource
FetchFailSkip ==
    /\ lpc = "loop"
    /\ url_i <= Len(url_list)
    /\ requests' = Append(requests, url_i)
    /\ url_i' = url_i + 1
    /\ UNCHANGED <<block, lpc, df_list, loaded, TransformVars, raised, verdict>>

\* one iteration of the for loop, read_csv raising (transport or decode
\* failure): nothing catches it, the call ends
FetchFail ==
    /\ lpc = "loop"
    /\ url_i <= Len(url_list)
    /\ requests' = Append(requests, url_i)
    /\ lpc' = "raised"
    /\ raised' = "read_csv"
    /\ UNCHANGED <<block, url_i, df_list, loaded, TransformVars, verdict>>

\* the loop is over: line 44
LoaderReturn ==
    /\ lpc = "loop"
    /\ url_i > Len(url_list)
    /\ loaded' = LoaderReturnValue(df_list)
    /\ lpc' = "returned"
    /\ UNCHANGED <<block, url_i, df_list, requests, TransformVars, raised, verdict>>

\* the host runs the loader's test_output on the returned value: line 52
LoaderTest ==
    /\ lpc = "returned"
    /\ verdict' = LoaderTestOutput(loaded)
    /\ lpc' = "tested"
    /\ UNCHANGED <<block, url_i, df_list, requests, loaded, TransformVars, raised>>

\* the host calls transform(data) on a frame: one of 0 .. MaxRows rows over a
\* listed column list, or an empty one with a generated column label
HostRunTransformer ==
    /\ block = "none"
    /\ block' = "transformer"
    /\ \/ \E s \in InputSchemas : \E n \in 0..MaxRows :
             \E rows \in [1..n -> RowsOf(s)] :
                /\ data' = Frame(s, rows)
                /\ data0' = Frame(s, rows)
       \/ \E g \in GeneratedNames :
             /\ data' = HeaderOnly(g)
             /\ data0' = HeaderOnly(g)
    /\ tpc' = "called"
    /\ UNCHANGED <<LoaderVars, output, raised, verdict>>

\* the call of transform ends with the result res
TransformEnds(res) ==
    /\ data' = res.data
    /\ output' = res.output
    /\ raised' = res.raised
    /\ tpc' = IF res.raised = "" THEN "returned" ELSE "raised"

\* transform runs to its return or to the exception that ends it: lines 23-25
Transform ==
    /\ tpc = "called"
    /\ TransformEnds(TransformResult(data))
    /\ UNCHANGED <<block, LoaderVars, data0, verdict>>

\* the host runs the transformer's test_output on the returned value: lines 33-36
TransformTest ==
    /\ tpc = "returned"
    /\ verdict' = TransformTestOutput(output)
    /\ tpc' = "tested"
    /\ UNCHANGED <<block, LoaderVars, data0, data, output, raised>>

Next ==
    \/ HostRunLoader
    \/ Fetch
    \/ FetchFail
    \/ LoaderReturn
    \/ LoaderTest
    \/ HostRunTransformer
    \/ Transform
    \/ TransformTest

Spec == Init /\ [][Next]_vars

-----------------------------------------------------------------------------
(* Properties.                                                             *)

\* transform has returned a value (its test may have run since)
Returned == tpc \in {"returned", "tested"}
\* load_data_from_api has returned a value
Loaded == lpc \in {"returned", "tested"}

\* position of the column labelled name in a column list, 0 when absent
PosOf(cols, name) ==
    IF \E i \in 1..Len(cols) : cols[i] = name
    THEN CHOOSE i \in 1..Len(cols) : cols[i] = name
    ELSE 0

\* the cell is a number greater than zero
Positive(cell) == cell # <<>> /\ cell[1] > 0

\* the cells at column c of every row of a frame satisfy / avoid
AllPositive(df, c) == \A r \in 1..Len(df.rows) : Positive(df.rows[r][c])
NoneEqual(df, c, cell) == \A r \in 1..Len(df.rows) : df.rows[r][c] # cell

\* C1: every row of the batch transform returns has passenger_count > 0 and
\* trip_distance > 0 (no negative or missing trip_distance, no missing
\* passenger_count).
C1_StrictlyPositive ==
    Returned =>
        /\ AllPositive(output, PosOf(output.columns, passenger_count))
        /\ AllPositive(output, PosOf(output.columns, trip_distance))

\* C2: the batch transform returns has no row with passenger_count equal to 0
\* and no row with trip_distance equal to 0, so the two row assertions of the
\* paired test never fail.
C2_NoZeroRows ==
    /\ Returned =>
          /\ NoneEqual(output, PosOf(output.columns, passenger_count), <<0>>)
          /\ NoneEqual(output, PosOf(output.columns, trip_distance), <<0>>)
    /\ verdict # "there are rides with zero passnger"
    /\ verdict # "there are rides with zero trip distance"

\* C2 witness: a frame with a zero-passenger row or a zero-distance row was
\* transformed, some row was retained and the test has run.
C2_Witness ==
    /\ tpc = "tested"
    /\ Len(output.rows) >= 1
    /\ \E r \in 1..Len(data0.rows) :
          \/ data0.rows[r][PosOf(data.columns, trip_distance)] = <<0>>
          \/ data0.rows[r][PosOf(data.columns, passenger_count)] = <<0>>

\* the labels of the rows of the frame passed in that have passenger_count > 0
\* and trip_distance > 0, in row order
RECURSIVE ValidLabels(_, _, _)
ValidLabels(r, pc, td) ==
    IF r > Len(data0.rows) THEN <<>>
    ELSE IF Positive(data0.rows[r][pc]) /\ Positive(data0.rows[r][td])
         THEN <<data0.index[r]>> \o ValidLabels(r + 1, pc, td)
         ELSE ValidLabels(r + 1, pc, td)

\* C3: the rows transform returns are exactly the input rows with
\* passenger_count > 0 and trip_distance > 0, each once.
C3_ExactlyValidRows ==
    Returned =>
        output.index = ValidLabels(1, PosOf(data.columns, passenger_count),
                                      PosOf(data.columns, trip_distance))

\* the image of character i of a name under "every ID becomes _id, then
\* lower case": an I followed by D gives _i, a D preceded by I gives d, any
\* other character gives its lower-case form
NamePiece(n, i) ==
    IF n[i] = "I" /\ i < Len(n) /\ n[i + 1] = "D" THEN <<"_", "i">>
    ELSE IF n[i] = "D" /\ i > 1 /\ n[i - 1] = "I" THEN <<"d">>
    ELSE IF n[i] \in DOMAIN LowerOf THEN <<LowerOf[n[i]]>>
    ELSE <<n[i]>>

RECURSIVE NameFrom(_, _)
NameFrom(n, i) ==
    IF i > Len(n) THEN <<>> ELSE NamePiece(n, i) \o NameFrom(n, i + 1)

pulocation_id == <<"p","u","l","o","c","a","t","i","o","n","_","i","d">>

\* C4: column c of the batch transform returns is labelled with the input's
\* label c in which every ID is replaced by _id and every letter is lower
\* case; VendorID gives vendor_id and PULocationID gives pulocation_id.
C4_ColumnNames ==
    Returned =>
        /\ Len(output.columns) >= Len(data0.columns)
        /\ \A c \in 1..Len(data0.columns) :
              /\ output.columns[c] = NameFrom(data0.columns[c], 1)
              /\ data0.columns[c] = VendorID => output.columns[c] = vendor_id
              /\ data0.columns[c] = PULocationID => output.columns[c] = pulocation_id

\* C4 witness: a frame with the columns PULocationID and PASSENGER_COUNT was
\* transformed and returned.
C4_Witness ==
    /\ Returned
    /\ \E c \in 1..Len(data0.columns) :
          data0.columns[c] = PULocationID /\ output.columns[c] = pulocation_id
    /\ \E c \in 1..Len(data0.columns) :
          data0.columns[c] = PASSENGER_COUNT /\ output.columns[c] = passenger_count

\* C4 witness of a label with two occurrences of ID.
C4_WitnessTwice ==
    /\ Returned
    /\ data0.columns[1] = <<"I","D","I","D">>
    /\ output.columns[1] = <<"_","i","d","_","i","d">>

\* the number of rows of the first u frames of df_list
RECURSIVE RowsBefore(_)
RowsBefore(u) ==
    IF u = 0 THEN 0 ELSE Len(df_list[u].rows) + RowsBefore(u - 1)

\* C5: the batch the loader returns has N1+N2+N3 rows, line k of resource u
\* at position N1+..+N(u-1)+k, labelled 0 .. N1+N2+N3-1.
C5_ConcatOrder ==
    Loaded =>
        /\ Len(df_list) = Len(url_list)
        /\ Len(loaded.rows) = RowsBefore(Len(df_list))
        /\ \A u \in 1..Len(df_list) : \A k \in 1..Len(df_list[u].rows) :
              loaded.rows[RowsBefore(u - 1) + k] = << <<u, k>> >>
        /\ Len(loaded.index) = Len(loaded.rows)
        /\ \A p \in 1..Len(loaded.index) : loaded.index[p] = p - 1

\* C5 witness: three resources of different, non-zero sizes were concatenated.
C5_Witness ==
    /\ Loaded
    /\ Len(df_list[1].rows) = 2
    /\ Len(df_list[2].rows) = 1
    /\ Len(df_list[3].rows) = 2
    /\ Len(loaded.rows) = 5

\* C6: once read_csv has failed on a resource (a request that added no frame
\* to df_list), the loader has raised, has returned nothing, has requested
\* that resource once and no resource after it, and its test has not run.
C6_FailFast ==
    Len(requests) > Len(df_list) =>
        /\ lpc = "raised"
        /\ raised = "read_csv"
        /\ loaded = None
        /\ verdict = ""
        /\ Len(requests) = Len(df_list) + 1
        /\ \A p \in 1..Len(requests) : requests[p] = p

\* C6 witness: the second resource failed after the first gave rows.
C6_Witness ==
    /\ lpc = "raised"
    /\ Len(requests) = 2
    /\ Len(df_list) = 1
    /\ Len(df_list[1].rows) > 0

\* the call of transform has ended, by a return or by an exception
Ended == tpc \in {"returned", "tested", "raised"}

Lacks(cols, name) == \A c \in 1..Len(cols) : cols[c] # name

LacksRequired(cols) ==
    \/ Lacks(cols, passenger_count)
    \/ Lacks(cols, trip_distance)
    \/ Lacks(cols, lpep_pickup_datetime)

\* C7 as stated: when the input frame has no column labelled passenger_count,
\* trip_distance or lpep_pickup_datetime, transform raises and returns
\* nothing.
C7_InputLacksRaises ==
    (Ended /\ LacksRequired(data0.columns)) =>
        (tpc = "raised" /\ raised # "" /\ output = None)

\* C7: when the frame, after its column labels are normalized, has no column
\* labelled passenger_count, trip_distance or lpep_pickup_datetime, transform
\* raises and returns nothing.
C7_NormalizedLacksRaises ==
    (Ended /\ LacksRequired(NormalizeColumns(data0.columns))) =>
        (tpc = "raised" /\ raised # "" /\ output = None)

\* C7 witness: a frame without trip_distance was passed and the call raised
\* on it.
C7_Witness ==
    /\ tpc = "raised"
    /\ Lacks(NormalizeColumns(data0.columns), trip_distance)
    /\ ~Lacks(NormalizeColumns(data0.columns), passenger_count)
    /\ ~Lacks(NormalizeColumns(data0.columns), lpep_pickup_datetime)
    /\ raised = "KeyError: trip_distance"
    /\ Len(data0.rows) > 0

Labels(cols) == {cols[c] : c \in 1..Len(cols)}

\* the cell is the calendar date of the timestamp cell dt
IsDateOf(cell, dt) == cell = IF dt = <<>> THEN <<>> ELSE <<dt[1]>>

\* column d of every row of the frame holds the date of its column dt
DatesDerived(df, d, dt) ==
    \A r \in 1..Len(df.rows) : IsDateOf(df.rows[r][d], df.rows[r][dt])

\* the columns out are the n columns of the input and lpep_pickup_date: one
\* of the n when the input has a column of that (normalized) label, a new
\* last column otherwise
ColumnsPlusDate(out, n) ==
    /\ lpep_pickup_date \in Labels(out)
    /\ Len(out) \in {n, n + 1}
    /\ Len(out) = n + 1 =>
          /\ out[n + 1] = lpep_pickup_date
          /\ \A c \in 1..n : out[c] # lpep_pickup_date

\* C8: in every row of the batch transform returns, lpep_pickup_date is the
\* calendar date of the row's lpep_pickup_datetime (missing when that is
\* missing), and the columns are the input's columns (which C4 names) and
\* lpep_pickup_date.
C8_PickupDate ==
    Returned =>
        /\ DatesDerived(output, PosOf(output.columns, lpep_pickup_date),
                                PosOf(output.columns, lpep_pickup_datetime))
        /\ ColumnsPlusDate(output.columns, Len(data0.columns))

\* C8 witness: a retained row with a timestamp got its date in a new column.
C8_Witness ==
    /\ Returned
    /\ Len(output.columns) = Len(data0.columns) + 1
    /\ \E r \in 1..Len(output.rows) :
          /\ output.rows[r][PosOf(output.columns, lpep_pickup_datetime)] = Stamp
          /\ output.rows[r][PosOf(output.columns, lpep_pickup_date)] = <<20201001>>

\* C9: a call of load_data_from_api or of transform that returns, returns a
\* frame and not None, so the non-null assertion of its test passes.
C9_NonNull ==
    /\ Loaded => loaded # None
    /\ Returned => output # None
    /\ verdict # "The output is undefined"
    /\ lpc = "tested" => verdict = "pass"

\* C9 witness: transform returned a frame with no rows from a frame with rows
\* and its test has run.
C9_Witness ==
    /\ tpc = "tested"
    /\ Len(data0.rows) > 0
    /\ output # None
    /\ Len(output.rows) = 0

\* C10 as stated: after transform returns, the caller's frame has every
\* original row with its original cells; only the labels are normalized and
\* the lpep_pickup_date column is added.
C10_InputRowsUntouched ==
    Returned =>
        /\ data.index = data0.index
        /\ Len(data.rows) = Len(data0.rows)
        /\ \A r \in 1..Len(data0.rows) : \A c \in 1..Len(data0.columns) :
              data.rows[r][c] = data0.rows[r][c]

\* every cell of the frame now is the cell of the frame before, but in the
\* columns labelled lpep_pickup_date, which hold the date of column dt
CellsKept(now, before, dt) ==
    \A r \in 1..Len(before.rows) : \A c \in 1..Len(before.columns) :
        IF now.columns[c] = lpep_pickup_date
        THEN IsDateOf(now.rows[r][c], before.rows[r][dt])
        ELSE now.rows[r][c] = before.rows[r][c]

\* C10: after transform returns, the caller's frame has every original row
\* with its original cells in every column but one already labelled
\* lpep_pickup_date after normalization, which holds the derived dates; it
\* has the columns of the returned frame (normalized labels and
\* lpep_pickup_date), and the rows the filter drops are still in it.
C10_InputRowsKept ==
    Returned =>
        /\ data.index = data0.index
        /\ Len(data.rows) = Len(data0.rows)
        /\ CellsKept(data, data0, PosOf(data.columns, lpep_pickup_datetime))
        /\ data.columns = output.columns
        /\ lpep_pickup_date \in Labels(data.columns)

\* C10 witness: transform returned fewer rows than the caller's frame, which
\* still has them all.
C10_Witness ==
    /\ Returned
    /\ Len(output.rows) < Len(data0.rows)
    /\ Len(data.rows) = Len(data0.rows)
    /\ Len(data0.rows) = 2

====
